---- MODULE Spec2Model ----
(***************************************************************************)
(* Debate-Analyzer backend (server.js = src/unnamed/part_001, Argument     *)
(* model = src/unnamed/part_000): the statistics computed by the list and  *)
(* detail endpoints, the add-argument and register handlers, and the       *)
(* interleaving of request handlers at their awaits.                       *)
(***************************************************************************)
EXTENDS Integers, Sequences, FiniteSets, TLC

VARIABLES users, debates, arguments, slot, input, out

vars == <<users, debates, arguments, slot, input, out>>

\* ---------------------------------------------------------------- bounds
MaxLen == 3
MaxArgs == 1
MaxUsers == 2

\* ---------------------------------------------------------------- values
Undefined == "undefined"
Sides == {"for", "against"}
ReqSides == {"for", "against", "maybe"}
AuthorNames == {"ann", "Ann"}
TokenUsername == "ann"
TextLens == {1, 119, 120}
ReqTextLens == {0, 119, 120}
ReqAuthorNames == {Undefined, "Ann"}
DebateIds == <<"d1", "d2">>
Slots == {"r1", "r2"}
Usernames == {"ann", "bob"}

Range(s) == {s[i] : i \in DOMAIN s}
Reverse(s) == [i \in DOMAIN s |-> s[Len(s) + 1 - i]]
Permuted(s, q) == [i \in DOMAIN s |-> s[q[i]]]
SeqsUpTo(S, n) == UNION {[1..k -> S] : k \in 0..n}

\* An Argument document: text is modelled by its length (text.length).
ArgumentDocs(ids) == [debate : ids, side : Sides, len : TextLens, authorName : AuthorNames]

\* ------------------------------------------------- GET /api/debates/:id
DetailInitShared ==
  LET answered == {p \in DOMAIN slot :
                     /\ slot[p].pc = "done"
                     /\ slot[p].op = "detail"
                     /\ slot[p].status = 200}
  IN  IF answered = {}
        THEN [for |-> 0, against |-> 0, participants |-> 0,
              forPoints |-> 0, againstPoints |-> 0, winner |-> "DRAW"]
        ELSE slot[CHOOSE p \in answered : TRUE].stats
DetailInit ==
  [for |-> 0, against |-> 0, participants |-> 0,
   forPoints |-> 0, againstPoints |-> 0, winner |-> "DRAW"]

DetailIsLongStrict(arg) == IF arg.len > 120 THEN 1 ELSE 0
DetailIsLong(arg) == IF arg.len >= 120 THEN 1 ELSE 0

DetailAddParticipantFolded(set, name) == set \cup {IF name = "Ann" THEN "ann" ELSE name}
DetailAddParticipant(set, name) == set \cup {name}

DetailCountSwapped(stats, arg) ==
  IF arg.side = "for"
    THEN [stats EXCEPT !.for = @ + 1, !.forPoints = @ + 1 + DetailIsLong(arg)]
    ELSE [stats EXCEPT !.for = @ + 1, !.againstPoints = @ + 1 + DetailIsLong(arg)]
DetailCountAssign(stats, arg) ==
  IF arg.side = "for"
    THEN [stats EXCEPT !.for = @ + 1, !.forPoints = 1 + DetailIsLong(arg)]
    ELSE [stats EXCEPT !.against = @ + 1, !.againstPoints = 1 + DetailIsLong(arg)]
DetailCount(stats, arg) ==
  IF arg.side = "for"
    THEN [stats EXCEPT !.for = @ + 1, !.forPoints = @ + 1 + DetailIsLong(arg)]
    ELSE [stats EXCEPT !.against = @ + 1, !.againstPoints = @ + 1 + DetailIsLong(arg)]

\* the body of argumentsList.forEach: acc = [stats, participantsSet]
DetailEach(acc, arg) ==
  [stats |-> DetailCount(acc.stats, arg),
   participantsSet |-> DetailAddParticipant(acc.participantsSet, arg.authorName)]

RECURSIVE DetailForEach(_, _)
DetailForEach(argumentsList, acc) ==
  IF argumentsList = <<>> THEN acc
  ELSE DetailForEach(Tail(argumentsList), DetailEach(acc, Head(argumentsList)))

DetailWinnerByCount(stats) ==
  IF stats.for > stats.against THEN "FOR"
  ELSE IF stats.against > stats.for THEN "AGAINST"
  ELSE "DRAW"
DetailWinner(stats) ==
  IF stats.forPoints > stats.againstPoints THEN "FOR"
  ELSE IF stats.againstPoints > stats.forPoints THEN "AGAINST"
  ELSE "DRAW"

DetailStats(argumentsList) ==
  LET acc == DetailForEach(argumentsList, [stats |-> DetailInit, participantsSet |-> {}])
      counted == [acc.stats EXCEPT !.participants = Cardinality(acc.participantsSet)]
  IN  [counted EXCEPT !.winner = DetailWinner(counted)]

\* ----------------------------------------------------- GET /api/debates
ListInit ==
  [for |-> 0, against |-> 0, participants |-> 0, forPoints |-> 0,
   againstPoints |-> 0, winner |-> "DRAW", participantSet |-> {}]

ListIsLong(arg) == IF arg.len >= 120 THEN 1 ELSE 0

ListCount(st, arg) ==
  LET seen == [st EXCEPT !.participantSet = @ \cup {arg.authorName}]
  IN  IF arg.side = "for"
        THEN [seen EXCEPT !.for = @ + 1, !.forPoints = @ + 1 + ListIsLong(arg)]
        ELSE [seen EXCEPT !.against = @ + 1, !.againstPoints = @ + 1 + ListIsLong(arg)]

ListEachAll(statsMap, arg) ==
  [d \in DOMAIN statsMap |-> ListCount(statsMap[d], arg)]
ListEach(statsMap, arg) ==
  [statsMap EXCEPT ![arg.debate] = ListCount(@, arg)]

RECURSIVE ListForEach(_, _)
ListForEach(argumentsList, statsMap) ==
  IF argumentsList = <<>> THEN statsMap
  ELSE ListForEach(Tail(argumentsList), ListEach(statsMap, Head(argumentsList)))

ListWinner(st) ==
  IF st.forPoints > st.againstPoints THEN "FOR"
  ELSE IF st.againstPoints > st.forPoints THEN "AGAINST"
  ELSE "DRAW"

\* "Final calculations": participants, delete participantSet, winner
ListFinal(st) ==
  LET sized == [for |-> st.for, against |-> st.against,
                participants |-> Cardinality(st.participantSet),
                forPoints |-> st.forPoints, againstPoints |-> st.againstPoints,
                winner |-> st.winner]
  IN  [sized EXCEPT !.winner = ListWinner(sized)]

ListFallback ==
  [for |-> 0, against |-> 0, participants |-> 0,
   forPoints |-> 0, againstPoints |-> 0, winner |-> "DRAW"]

\* the stats of the response: one entry per debate of the snapshot
ListStats(debateList, argumentsList) ==
  LET statsMap == ListForEach(argumentsList, [d \in Range(debateList) |-> ListInit])
      final == [d \in DOMAIN statsMap |-> ListFinal(statsMap[d])]
  IN  [d \in Range(debateList) |-> IF d \in DOMAIN final THEN final[d] ELSE ListFallback]

\* ------------------------------------------------------- scorer harness
NoOut == [via |-> "none"]

InitScorer ==
  /\ users = <<>>
  /\ debates = DebateIds
  /\ arguments = <<>>
  /\ slot = [p \in Slots |-> [pc |-> "idle"]]
  /\ input \in SeqsUpTo(ArgumentDocs({DebateIds[1]}), MaxLen)
  /\ out = NoOut

ScoreDetail ==
  /\ out' = [via |-> "detail", stats |-> DetailStats(input)]
  /\ UNCHANGED <<users, debates, arguments, slot, input>>

ScoreList ==
  /\ \E q \in Permutations(DOMAIN input) :
       out' = [via |-> "list",
               stats |-> ListStats(Reverse(debates), Permuted(input, q))[DebateIds[1]]]
  /\ UNCHANGED <<users, debates, arguments, slot, input>>

NextScorer == ScoreDetail \/ ScoreList

SpecScorer == InitScorer /\ [][NextScorer]_vars

\* ------------------------------------------------------------ requests
\* A handler runs from one await to the next without interruption; between
\* two awaits the handlers of other requests may run.  slot[p] is the
\* position of request p: idle, waiting for a query, or answered.
Free(p) == slot[p].pc \in {"idle", "done"}

Prefix(s, n) == SubSeq(s, 1, n)
SelectDebate(s, id) == SelectSeq(s, LAMBDA a : a.debate = id)

\* Debate.findById(id)
DebateFound(id) == id \in Range(debates)

\* Argument.find({ debate: id }).sort({ createdAt: 1 })
ArgumentFindStale(id) ==
  LET found == SelectDebate(arguments, id)
  IN  IF found = <<>> THEN found ELSE Prefix(found, Len(found) - 1)
ArgumentFind(id) == SelectDebate(arguments, id)

\* Argument.find({ debate: { $in: debateIds } }), in any order
ArgumentFindIn(debateIds) == SelectSeq(arguments, LAMBDA a : a.debate \in debateIds)

\* authMiddleware: no bearer token, or an invalid one
Unauthorized(p) ==
  /\ Free(p)
  /\ slot' = [slot EXCEPT ![p] = [pc |-> "done", op |-> "authMiddleware", status |-> 401]]
  /\ UNCHANGED <<users, debates, arguments, input, out>>

\* POST /api/debates
CreateDebate(p) ==
  /\ Free(p)
  /\ Len(debates) < Len(DebateIds)
  /\ LET id == DebateIds[Len(debates) + 1]
     IN  /\ debates' = Append(debates, id)
         /\ slot' = [slot EXCEPT ![p] =
              [pc |-> "done", op |-> "createDebate", status |-> 201, id |-> id]]
  /\ UNCHANGED <<users, arguments, input, out>>

\* GET /api/debates, up to the answer of Debate.find().sort({ createdAt: -1 })
ListDebates(p) ==
  /\ Free(p)
  /\ slot' = [slot EXCEPT ![p] = [pc |-> "list_args", debateList |-> Reverse(debates)]]
  /\ UNCHANGED <<users, debates, arguments, input, out>>

\* GET /api/debates, from the answer of Argument.find to the response
ListRespond(p) ==
  /\ slot[p].pc = "list_args"
  /\ LET found == ArgumentFindIn(Range(slot[p].debateList))
     IN  \E q \in Permutations(DOMAIN found) :
           slot' = [slot EXCEPT ![p] =
             [pc |-> "done", op |-> "list", status |-> 200,
              debateList |-> slot[p].debateList, readLen |-> Len(arguments),
              stats |-> ListStats(slot[p].debateList, Permuted(found, q))]]
  /\ UNCHANGED <<users, debates, arguments, input, out>>

\* GET /api/debates/:id, up to the answer of Debate.findById
DetailDebate(p, id) ==
  /\ Free(p)
  /\ slot' = [slot EXCEPT ![p] =
       IF DebateFound(id)
         THEN [pc |-> "detail_args", id |-> id]
         ELSE [pc |-> "done", op |-> "detail", status |-> 404, id |-> id]]
  /\ UNCHANGED <<users, debates, arguments, input, out>>

\* GET /api/debates/:id, from the answer of Argument.find to the response
DetailRespond(p) ==
  /\ slot[p].pc = "detail_args"
  /\ slot' = [slot EXCEPT ![p] =
       [pc |-> "done", op |-> "detail", status |-> 200, id |-> slot[p].id,
        readLen |-> Len(arguments),
        stats |-> DetailStats(ArgumentFind(slot[p].id))]]
  /\ UNCHANGED <<users, debates, arguments, input, out>>

\* POST /api/debates/:id/arguments
AddSideAny(side) == TRUE
AddSideOk(side) == side \in {"for", "against"}

\* authorName || req.user.username
AddAuthorName(authorName, username) ==
  IF authorName = Undefined THEN username ELSE authorName

\* argumentSchema: side in the enum, text and authorName required
SchemaValid(doc) ==
  /\ doc.side \in {"for", "against"}
  /\ doc.len > 0
  /\ doc.authorName # Undefined

AddsInFlight == Cardinality({p \in Slots : slot[p].pc = "add_create"})

\* up to the answer of Debate.findById
AddDebate(p, id, side, len, authorName) ==
  /\ Free(p)
  /\ IF ~AddSideOk(side)
       THEN slot' = [slot EXCEPT ![p] =
              [pc |-> "done", op |-> "add", status |-> 400,
               side |-> side, authorName |-> authorName]]
       ELSE IF ~DebateFound(id)
         THEN slot' = [slot EXCEPT ![p] =
                [pc |-> "done", op |-> "add", status |-> 404,
                 side |-> side, authorName |-> authorName]]
         ELSE /\ Len(arguments) + AddsInFlight < MaxArgs
              /\ slot' = [slot EXCEPT ![p] =
                   [pc |-> "add_create", id |-> id, side |-> side, len |-> len,
                    authorName |-> authorName]]
  /\ UNCHANGED <<users, debates, arguments, input, out>>

\* Argument.create and the response
AddCreate(p) ==
  /\ slot[p].pc = "add_create"
  /\ LET doc == [debate |-> slot[p].id, side |-> slot[p].side, len |-> slot[p].len,
                 authorName |-> AddAuthorName(slot[p].authorName, TokenUsername)]
     IN  IF SchemaValid(doc)
           THEN /\ arguments' = Append(arguments, doc)
                /\ slot' = [slot EXCEPT ![p] =
                     [pc |-> "done", op |-> "add", status |-> 201,
                      side |-> slot[p].side, authorName |-> slot[p].authorName]]
           ELSE /\ arguments' = arguments
                /\ slot' = [slot EXCEPT ![p] =
                     [pc |-> "done", op |-> "add", status |-> 500,
                      side |-> slot[p].side, authorName |-> slot[p].authorName]]
  /\ UNCHANGED <<users, debates, input, out>>

Init ==
  /\ users = <<>>
  /\ debates = <<>>
  /\ arguments = <<>>
  /\ slot = [p \in Slots |-> [pc |-> "idle"]]
  /\ input = <<>>
  /\ out = NoOut

Next ==
  \E p \in Slots :
    \/ Unauthorized(p)
    \/ CreateDebate(p)
    \/ ListDebates(p)
    \/ ListRespond(p)
    \/ \E id \in Range(DebateIds) : DetailDebate(p, id)
    \/ DetailRespond(p)
    \/ \E id \in Range(DebateIds), side \in ReqSides, len \in ReqTextLens,
          authorName \in ReqAuthorNames :
         AddDebate(p, id, side, len, authorName)
    \/ AddCreate(p)

Spec == Init /\ [][Next]_vars

\* ------------------------------------------------- POST /api/auth/register
Passwords == {Undefined, "pw"}

RegistersInFlight == Cardinality({p \in Slots : slot[p].pc = "reg_create"})

\* up to the answer of User.findOne({ username })
RegisterFind(p, username, password) ==
  /\ Free(p)
  /\ IF username = Undefined \/ password = Undefined
       THEN slot' = [slot EXCEPT ![p] =
              [pc |-> "done", op |-> "register", status |-> 400,
               message |-> "Username & password required", username |-> username]]
       ELSE IF username \in Range(users)
         THEN slot' = [slot EXCEPT ![p] =
                [pc |-> "done", op |-> "register", status |-> 400,
                 message |-> "Username already taken", username |-> username]]
         ELSE /\ Len(users) + RegistersInFlight < MaxUsers
              /\ slot' = [slot EXCEPT ![p] = [pc |-> "reg_create", username |-> username]]
  /\ UNCHANGED <<users, debates, arguments, input, out>>

\* bcrypt.hash, User.create and the response.  The handler does not look
\* again for the username: User.create inserts, or is refused by the
\* database and the catch answers 500.
RegisterCreate(p) ==
  /\ slot[p].pc = "reg_create"
  /\ \E refused \in {slot[p].username \in Range(users), FALSE} :
       IF refused
         THEN /\ users' = users
              /\ slot' = [slot EXCEPT ![p] =
                   [pc |-> "done", op |-> "register", status |-> 500,
                    message |-> "Server error", username |-> slot[p].username]]
         ELSE /\ users' = Append(users, slot[p].username)
              /\ slot' = [slot EXCEPT ![p] =
                   [pc |-> "done", op |-> "register", status |-> 201,
                    message |-> "User registered", username |-> slot[p].username]]
  /\ UNCHANGED <<debates, arguments, input, out>>

NextRegister ==
  \E p \in Slots :
    \/ \E username \in Usernames \cup {Undefined}, password \in Passwords :
         RegisterFind(p, username, password)
    \/ RegisterCreate(p)

SpecRegister == Init /\ [][NextRegister]_vars

\* ------------------------------------------------- reference quantities
\* What the statistics are required to be, stated over the input as a whole.
OfSide(args, s) == {i \in DOMAIN args : args[i].side = s}
Contribution(arg) == IF arg.len <= 119 THEN 1 ELSE 2

RECURSIVE SumContribution(_, _)
SumContribution(args, idx) ==
  IF idx = {} THEN 0
  ELSE LET i == CHOOSE j \in idx : TRUE
       IN  Contribution(args[i]) + SumContribution(args, idx \ {i})

DistinctAuthors(args) == {args[i].authorName : i \in DOMAIN args}

ExpectedWinner(forPoints, againstPoints) ==
  CASE forPoints > againstPoints -> "FOR"
    [] againstPoints > forPoints -> "AGAINST"
    [] OTHER -> "DRAW"

ExpectedStats(args) ==
  LET fp == SumContribution(args, OfSide(args, "for"))
      ap == SumContribution(args, OfSide(args, "against"))
  IN  [for |-> Cardinality(OfSide(args, "for")),
       against |-> Cardinality(OfSide(args, "against")),
       participants |-> Cardinality(DistinctAuthors(args)),
       forPoints |-> fp, againstPoints |-> ap,
       winner |-> ExpectedWinner(fp, ap)]

Scored == out.via \in {"detail", "list"}

\* C1: for every input sequence (the empty one included) the computed stats
\* have for + against equal to the length of the input, for equal to the
\* number of "for" arguments and against to the number of "against" ones.
C1_CountsPartitionInput ==
  Scored =>
    /\ out.stats.for + out.stats.against = Len(input)
    /\ out.stats.for = Cardinality(OfSide(input, "for"))
    /\ out.stats.against = Cardinality(OfSide(input, "against"))

C1_Witness ==
  /\ Scored
  /\ OfSide(input, "for") # {}
  /\ Cardinality(OfSide(input, "against")) >= 2

\* C2: every argument adds to its own side's points 1 when its text is at
\* most 119 long and 2 when it is 120 or longer, and nothing to the other
\* side; forPoints and againstPoints are the sums of these contributions.
C2_PointsAreContributions ==
  Scored =>
    /\ out.stats.forPoints = SumContribution(input, OfSide(input, "for"))
    /\ out.stats.againstPoints = SumContribution(input, OfSide(input, "against"))

C2_Witness ==
  /\ Scored
  /\ \E i, j \in DOMAIN input :
       /\ input[i].side = input[j].side
       /\ input[i].len = 119
       /\ input[j].len = 120
  /\ out.stats.forPoints + out.stats.againstPoints > Len(input)

\* C3: the winner depends on the point totals only: FOR exactly when
\* forPoints > againstPoints, AGAINST exactly when againstPoints > forPoints,
\* DRAW exactly when they are equal, whatever the counts per side; for the
\* empty input every count and total is 0 and the winner is DRAW.
C3_WinnerFromPoints ==
  Scored =>
    /\ (out.stats.winner = "FOR") <=> (out.stats.forPoints > out.stats.againstPoints)
    /\ (out.stats.winner = "AGAINST") <=> (out.stats.againstPoints > out.stats.forPoints)
    /\ (out.stats.winner = "DRAW") <=> (out.stats.forPoints = out.stats.againstPoints)
    /\ out.stats.winner \in {"FOR", "AGAINST", "DRAW"}
    /\ input = <<>> =>
         out.stats = [for |-> 0, against |-> 0, participants |-> 0,
                      forPoints |-> 0, againstPoints |-> 0, winner |-> "DRAW"]

\* the side with fewer arguments has as many points, or more
C3_Witness ==
  /\ Scored
  /\ out.stats.for > out.stats.against
  /\ out.stats.winner = "DRAW"
  /\ out.stats.againstPoints > 0

\* C4: participants is the number of distinct authorName strings (exact,
\* case-sensitive) over all arguments, both sides together; an author who
\* argues on both sides, or several times, counts once.
C4_ParticipantsDistinctAuthors ==
  Scored => out.stats.participants = Cardinality(DistinctAuthors(input))

C4_Witness ==
  /\ Scored
  /\ out.stats.participants = 2
  /\ \E i, j \in DOMAIN input :
       /\ input[i].authorName = input[j].authorName
       /\ input[i].side # input[j].side
  /\ \E i, j \in DOMAIN input :
       /\ input[i].authorName = "ann"
       /\ input[j].authorName = "Ann"

\* C5: the stats do not depend on the order of the input: scoring any
\* permutation of the input, by either endpoint, gives the same for, against,
\* forPoints, againstPoints, participants and winner.
C5_OrderIndependent ==
  Scored =>
    \A q \in Permutations(DOMAIN input) :
      /\ DetailStats(Permuted(input, q)) = out.stats
      /\ ListStats(Reverse(debates), Permuted(input, q))[DebateIds[1]] = out.stats

C5_Witness ==
  /\ Scored
  /\ Len(input) = 3
  /\ input[1].side = "for" /\ input[1].len = 120 /\ input[1].authorName = "Ann"
  /\ input[2].side = "for" /\ input[2].len = 1 /\ input[2].authorName = "ann"
  /\ input[3].side = "against"

\* ------------------------------------------------------ server claims
Answered(r, op) == r.pc = "done" /\ r.op = op
HasStats(r) == r.pc = "done" /\ r.op \in {"detail", "list"} /\ r.status = 200
Covers(r, d) == IF r.op = "detail" THEN r.id = d ELSE d \in Range(r.debateList)
StatsFor(r, d) == IF r.op = "detail" THEN r.stats ELSE r.stats[d]
\* the arguments of debate d that the request read: arguments are only ever
\* appended, so they are those among the first readLen stored
ReadData(r, d) == SelectDebate(Prefix(arguments, r.readLen), d)
Content(args) ==
  [i \in DOMAIN args |->
     [side |-> args[i].side, len |-> args[i].len, authorName |-> args[i].authorName]]

AddAnswered(p) == slot'[p] # slot[p] /\ Answered(slot'[p], "add")

\* C6 as stated: the add-argument operation rejects every invalid argument,
\* one whose side is not for/against or whose authorName is missing: the
\* request gets an error response and the stored arguments are unchanged.
C6_RejectsInvalid ==
  [][\A p \in Slots :
       (AddAnswered(p) /\ (slot'[p].side \notin Sides \/ slot'[p].authorName = Undefined))
         => (slot'[p].status >= 400 /\ arguments' = arguments)]_vars

\* C6 amended: a request whose side is not for/against is answered 400 and
\* stores nothing, and so does every request not answered 201; a request
\* answered 201 stores exactly one argument, with the requested side and with
\* the requested authorName or, when that is missing, the username of the
\* authenticated user.
C6_RejectsBadSideDefaultsAuthor ==
  [][\A p \in Slots :
       AddAnswered(p) =>
         /\ slot'[p].side \notin Sides => slot'[p].status = 400
         /\ slot'[p].status # 201 => arguments' = arguments
         /\ slot'[p].status = 201 =>
              /\ Len(arguments') = Len(arguments) + 1
              /\ Prefix(arguments', Len(arguments)) = arguments
              /\ arguments'[Len(arguments')].side = slot'[p].side
              /\ slot'[p].side \in Sides
              /\ arguments'[Len(arguments')].authorName =
                   (IF slot'[p].authorName = Undefined
                      THEN TokenUsername ELSE slot'[p].authorName)]_vars

C6_Witness ==
  /\ \E p \in Slots :
       /\ Answered(slot[p], "add")
       /\ slot[p].status = 201
       /\ slot[p].authorName = Undefined
  /\ \E p \in Slots :
       /\ Answered(slot[p], "add")
       /\ slot[p].status = 400
       /\ slot[p].side = "maybe"
  /\ \E i \in DOMAIN arguments : arguments[i].authorName = TokenUsername

\* C7: stats computation shares no state between invocations: however the
\* detail and list requests interleave, the stats of each response are those
\* of a lone run of the scorer on the arguments the request read, and two
\* responses computed from identical argument data carry identical stats.
C7_NoSharedState ==
  \A p \in Slots : \A d \in Range(DebateIds) :
    (HasStats(slot[p]) /\ Covers(slot[p], d)) =>
      /\ StatsFor(slot[p], d) = ExpectedStats(ReadData(slot[p], d))
      /\ \A q \in Slots : \A e \in Range(DebateIds) :
           ( /\ HasStats(slot[q])
             /\ Covers(slot[q], e)
             /\ Content(ReadData(slot[q], e)) = Content(ReadData(slot[p], d)) )
           => StatsFor(slot[q], e) = StatsFor(slot[p], d)

C7_Witness ==
  \E p, q \in Slots :
    /\ p # q
    /\ Answered(slot[p], "detail") /\ slot[p].status = 200
    /\ Answered(slot[q], "detail") /\ slot[q].status = 200
    /\ slot[p].id = slot[q].id
    /\ slot[p].readLen = slot[q].readLen
    /\ slot[p].stats.for + slot[p].stats.against >= 1

\* C8: on the same stored state the stats the list endpoint reports for a
\* debate equal, field by field, those the detail endpoint reports for it,
\* for every debate, one without arguments included; arguments of other
\* debates do not contribute.
C8_ListEqualsDetail ==
  \A p \in Slots :
    (Answered(slot[p], "list") /\ slot[p].status = 200) =>
      \A d \in Range(slot[p].debateList) :
        /\ slot[p].stats[d] = DetailStats(ReadData(slot[p], d))
        /\ \A q \in Slots :
             ( /\ Answered(slot[q], "detail") /\ slot[q].status = 200
               /\ slot[q].id = d
               /\ slot[q].readLen = slot[p].readLen )
             => slot[q].stats = slot[p].stats[d]

C8_Witness ==
  \E p, q \in Slots :
    /\ Answered(slot[p], "list") /\ slot[p].status = 200
    /\ Len(slot[p].debateList) = 2
    /\ Answered(slot[q], "detail") /\ slot[q].status = 200
    /\ slot[q].readLen = slot[p].readLen
    /\ slot[q].stats.participants = 0
    /\ \E d \in Range(slot[p].debateList) : slot[p].stats[d].participants = 1

DetailAnswered(p) == slot[p].pc = "detail_args" /\ slot'[p].pc = "done"
ReadStep(p) ==
  /\ slot'[p] # slot[p]
  /\ \/ slot'[p].pc \in {"detail_args", "list_args"}
     \/ slot'[p].pc = "done" /\ slot'[p].op \in {"detail", "list"}

\* C9: stats are recomputed from storage on every read and never stored: a
\* detail read of debate d answers with the stats of exactly the arguments
\* persisted for d at that moment (every successful add-argument before it
\* is reflected), and the read operations leave the persisted debates and
\* arguments unchanged.
C9_RecomputedOnRead ==
  [][\A p \in Slots :
       /\ DetailAnswered(p) =>
            slot'[p].stats = ExpectedStats(SelectDebate(arguments, slot[p].id))
       /\ ReadStep(p) => (arguments' = arguments /\ debates' = debates)]_vars

C9_Witness ==
  \E p, q \in Slots :
    /\ Answered(slot[q], "add") /\ slot[q].status = 201
    /\ Answered(slot[p], "detail") /\ slot[p].status = 200
    /\ slot[p].readLen = Len(arguments)
    /\ slot[p].stats.for + slot[p].stats.against = Len(SelectDebate(arguments, slot[p].id))
    /\ slot[p].stats.for + slot[p].stats.against >= 1

RegisterAnswered(p) == slot'[p] # slot[p] /\ Answered(slot'[p], "register")

\* C10: usernames are unique among registered users: however the register
\* requests interleave, at most one user is ever created per username, and a
\* register request (one that gives a username and a password) for a username
\* that already exists is answered 400 'Username already taken' and creates
\* no user.
C10_UsernamesUnique ==
  [][/\ \A i, j \in DOMAIN users' : users'[i] = users'[j] => i = j
     /\ \A p \in Slots :
          ( /\ RegisterAnswered(p)
            /\ slot'[p].message # "Username & password required"
            /\ slot'[p].username \in Range(users) ) =>
            /\ slot'[p].status = 400
            /\ slot'[p].message = "Username already taken"
            /\ users' = users]_vars

====
